---------------------------- MODULE Spec2Model ----------------------------
(***************************************************************************)
(* A model of the canvas-to-tensor web component                           *)
(* (src/ts/canvas-to-tensor-component.ts, the first class of the file,     *)
(* lines 1-268): the drawing handlers, the "to tensor" click handler and   *)
(* the image pipeline createTensor / gaussFilter / centerOfMass /          *)
(* moveImage.                                                              *)
(*                                                                         *)
(* Numbers.  The code computes in float32/float64.  The model computes     *)
(* exactly, in integers: a field is a record [den, val] whose cell (i, j)  *)
(* has the value val[<<i, j>>] / den, and a scalar is a record             *)
(* [kind, n, d] that is the rational n/d or one of IEEE's NaN, +Inf,       *)
(* -Inf.  Rounding error of the floating-point operations is not           *)
(* modelled; division by zero is (0/0 = NaN, x/0 = +-Inf).  Math.pow(      *)
(* Math.E, x) is a fixed-point Taylor evaluation (ExpNeg).                 *)
(*                                                                         *)
(* Sizes.  IMAGE_SIZE and CANVAS_SCALE are 28 and 10 in the source; the    *)
(* model runs the same code on a smaller image and a smaller canvas.       *)
(***************************************************************************)
EXTENDS Integers, Sequences, FiniteSets, TLC

\* src line 5 sets 28: the side of the output grid, scaled down.
IMAGE_SIZE == 3
\* src line 6 sets 10: canvas pixels per output cell, scaled down.
CANVAS_SCALE == 2
\* The number of "to tensor" clicks a behaviour may hold.
MaxClicks == 2
\* gaussFilter is called with sizes -1 .. MaxKernelSize.
MaxKernelSize == 4
\* gaussFilter is called with sigma in {-sqrt(q), 0, sqrt(q)}, q in 1 .. MaxSigmaSq.
MaxSigmaSq == 5
\* Fixed-point scale of the unnormalised Gaussian weights.
EXP_SCALE == 1000
\* Terms of the Taylor series of exp.
EXP_TERMS == 12

CANVAS_SIZE == IMAGE_SIZE * CANVAS_SCALE

Cells(n) == (0 .. n - 1) \X (0 .. n - 1)

Abs(x) == IF x < 0 THEN -x ELSE x

RECURSIVE SumUpTo(_, _)
SumUpTo(s, k) == IF k = 0 THEN 0 ELSE s[k] + SumUpTo(s, k - 1)

\* The sum of the cells of an n x n grid of integers.
SumGrid(g, n) ==
  SumUpTo([k \in 1 .. n * n |-> g[<<(k - 1) \div n, (k - 1) % n>>]], n * n)

(***************************************************************************)
(* Scalars: IEEE division and tf.round.                                    *)
(***************************************************************************)
Rat(n, d) == [kind |-> "num", n |-> n, d |-> d]
NaN == [kind |-> "nan", n |-> 0, d |-> 1]
PosInf == [kind |-> "posinf", n |-> 0, d |-> 1]
NegInf == [kind |-> "neginf", n |-> 0, d |-> 1]

\* a / b of two numbers with a common denominator: tensor.div.
Div(a, b) ==
  IF b # 0 THEN (IF b > 0 THEN Rat(a, b) ELSE Rat(-a, -b))
  ELSE IF a = 0 THEN NaN
  ELSE IF a > 0 THEN PosInf ELSE NegInf

\* c/2 - x for a scalar x: centerOfImage.sub(centerOfMass), one component.
SubFromHalf(c, x) ==
  CASE x.kind = "num" -> Rat(c * x.d - 2 * x.n, 2 * x.d)
    [] x.kind = "nan" -> NaN
    [] x.kind = "posinf" -> NegInf
    [] x.kind = "neginf" -> PosInf

\* tf.round of n/d (d > 0): to the nearest integer, a tie to the even one.
RoundHalfEven(n, d) ==
  LET q == n \div d
      r == n - q * d
  IN  IF 2 * r < d THEN q
      ELSE IF 2 * r > d THEN q + 1
      ELSE IF q % 2 = 0 THEN q ELSE q + 1

Round(x) == IF x.kind = "num" THEN Rat(RoundHalfEven(x.n, x.d), 1) ELSE x

(***************************************************************************)
(* gaussFilter (src lines 213-236).  sigma is the record [sgn, sq]: the    *)
(* number sgn * sqrt(sq); the code reads sigma only as Math.pow(sigma, 2). *)
(***************************************************************************)
Sigma(sgn, sq) == [sgn |-> sgn, sq |-> sq]

\* Math.sqrt(CANVAS_SCALE), the sigma createTensor passes (src line 147).
SqrtOf(q) == Sigma(1, q)

\* Twice the center: center = size / 2.0 - 0.5 (src line 214).
\* Variant: the center taken as size / 2.0, without the - 0.5.
Center2Off(size) == size
Center2(size) == size - 1

\* Four times dSquared of cell (x, y) (src line 222).
DSquared4(size, x, y) ==
  (2 * x - Center2(size)) * (2 * x - Center2(size))
    + (2 * y - Center2(size)) * (2 * y - Center2(size))

RECURSIVE ExpSeries(_, _, _, _)
\* EXP_SCALE * (the terms k .. EXP_TERMS of the series of e^(n/d)), term being term k-1.
ExpSeries(n, d, k, term) ==
  IF k > EXP_TERMS THEN 0
  ELSE LET t == (term * n) \div (d * k)
       IN  t + ExpSeries(n, d, k + 1, t)

\* EXP_SCALE * e^(-n/d) for n >= 0, d > 0: Math.pow(Math.E, exp) (src line 224).
ExpNeg(n, d) ==
  (EXP_SCALE * EXP_SCALE) \div (EXP_SCALE + ExpSeries(n, d, 1, EXP_SCALE))

\* filter[x][y] before normalisation (src lines 222-224): [nan, w], the
\* weight w / EXP_SCALE.  With sigma = 0 the exponent is -dSquared / 0:
\* -Infinity (weight 0) where dSquared > 0 and NaN where dSquared = 0.
Weight(size, sigma, x, y) ==
  LET q == DSquared4(size, x, y)
  IN  IF sigma.sq = 0
      THEN (IF q = 0 THEN [nan |-> TRUE, w |-> 0] ELSE [nan |-> FALSE, w |-> 0])
      ELSE [nan |-> FALSE, w |-> ExpNeg(q, 8 * sigma.sq)]

\* The matrix gaussFilter hands to tf.tensor2d (src lines 214-233): the
\* record [size, nan, den, val] whose cell (x, y) is val[<<x, y>>] / den, or
\* NaN in every cell when nan (a NaN weight makes sum NaN; sum = 0 makes
\* every quotient 0/0).  For size <= 0 no loop runs and the matrix is [].
GaussMatrix(size, sigma) ==
  LET n == IF size > 0 THEN size ELSE 0
      w == [c \in Cells(n) |-> Weight(size, sigma, c[1], c[2])]
      anyNaN == \E c \in Cells(n) : w[c].nan
      val == [c \in Cells(n) |-> w[c].w]
      sum == SumGrid(val, n)
  IN  [size |-> size, nan |-> (n > 0 /\ (anyNaN \/ sum = 0)),
       den |-> sum, val |-> val]

\* What gaussFilter can end with (src line 235): tf.tensor2d(filter,
\* [size, size]).as4D(size, size, 1, 1) returns the kernel; for a negative
\* size tfjs is handed a shape it does not document, and it either throws
\* its own shape error or returns the empty kernel.
GaussFilterOutcomes(size, sigma) ==
  LET m == GaussMatrix(size, sigma)
      k == [kind |-> "kernel", size |-> m.size, nan |-> m.nan,
            den |-> m.den, val |-> m.val]
  IN  IF size < 0
      THEN {k, [kind |-> "tfError", size |-> size, nan |-> FALSE,
                den |-> 0, val |-> m.val]}
      ELSE {k}

(***************************************************************************)
(* Fields.  A tensor of the pipeline is [kind, den, val]; kind "tensor" is *)
(* a grid whose cell c has the value val[c] / den.                         *)
(***************************************************************************)
NoGrid == [c \in Cells(0) |-> 0]
NoTensor == [kind |-> "none", den |-> 1, val |-> NoGrid]
Thrown == [kind |-> "throw", den |-> 1, val |-> NoGrid]
\* A tensor tfjs returned for arguments it does not document: contents unknown.
Garbage == [kind |-> "garbage", den |-> 1, val |-> NoGrid]
Tensor(den, val) == [kind |-> "tensor", den |-> den, val |-> val]

\* Pixels are <<r, g, b, a>>.
White == <<255, 255, 255, 255>>
Black == <<0, 0, 0, 255>>
\* "#0A7CC4", the fillStyle of the placeholder (src line 119).
PlaceholderBlue == <<10, 124, 196, 255>>
\* A canvas nothing was drawn on.
Transparent == <<0, 0, 0, 0>>

\* tf.browser.fromPixels(canvas).mean(2).sub(255).neg().div(255)
\* (src lines 151-156): (255 - (r + g + b) / 3) / 255 = (765 - (r+g+b)) / 765.
Grayscale(px) ==
  Tensor(3 * 255,
         [c \in Cells(CANVAS_SIZE) |-> 3 * 255 - (px[c][1] + px[c][2] + px[c][3])])

\* The cell (i, j) of an n x n grid, 0 outside it ("same" zero padding).
At(val, n, i, j) ==
  IF i >= 0 /\ i < n /\ j >= 0 /\ j < n THEN val[<<i, j>>] ELSE 0

\* .conv2d(blurFilter, [1, 1], "same") (src line 158): stride 1, the k - 1
\* padding rows split (k - 1) div 2 before and the rest after.
Conv2d(f, k, n) ==
  LET padBefore == (k.size - 1) \div 2
      cell(i, j) ==
        SumGrid([w \in Cells(k.size) |->
                   At(f.val, n, i + w[1] - padBefore, j + w[2] - padBefore)
                     * k.val[w]], k.size)
  IN  Tensor(f.den * k.den, [c \in Cells(n) |-> cell(c[1], c[2])])

\* .resizeNearestNeighbor([m, m]) (src line 159), alignCorners false: cell
\* (i, j) reads the source cell (floor(i * n / m), floor(j * n / m)).
ResizeNearestNeighbor(f, n, m) ==
  LET src(i) == IF (i * n) \div m < n - 1 THEN (i * n) \div m ELSE n - 1
  IN  Tensor(f.den, [c \in Cells(m) |-> f.val[<<src(c[1]), src(c[2])>>]])

\* .clipByValue(0, 1) (src line 160).
ClipByValue(f) ==
  Tensor(f.den, [c \in DOMAIN f.val |->
                   IF f.val[c] < 0 THEN 0
                   ELSE IF f.val[c] > f.den THEN f.den ELSE f.val[c]])

\* centerOfMass (src lines 241-251): <<iPos, jPos>>, each the sum of
\* image * index divided by the sum of image, with no test of the divisor.
CenterOfMass(f, n) ==
  LET mass == SumGrid(f.val, n)
      iSum == SumGrid([c \in Cells(n) |-> f.val[c] * c[1]], n)
      jSum == SumGrid([c \in Cells(n) |-> f.val[c] * c[2]], n)
  IN  <<Div(iSum, mass), Div(jSum, mass)>>

\* centerOfImage.sub(centerOfMass) (src lines 164-166).
\* Variant: the distance to the corner (0, 0) instead of the center.
DistanceFromCorner(c, n) == <<SubFromHalf(0, c[1]), SubFromHalf(0, c[2])>>
Distance(c, n) == <<SubFromHalf(n, c[1]), SubFromHalf(n, c[2])>>

\* image.pad([[d0, -d0], [d1, -d1]]) (src lines 260-264).  One of the two
\* paddings of each axis is negative whenever the image moves, which tf.pad
\* does not document; the two backends of the tfjs bundle differ there.
\* webgl: the output cell (i, j) reads the input cell (i - d0, j - d1) when
\* that lies in the input, and is 0 otherwise.
PadWebgl(val, n, d0, d1) ==
  [c \in Cells(n) |-> At(val, n, c[1] - d0, c[2] - d1)]

\* cpu: every input cell (r, c) is written to the flat output index
\* (r + d0) * n + (c + d1) when that index is in the buffer, so a column
\* moved past the edge lands in the neighbouring row.
PadCpu(val, n, d0, d1) ==
  [c \in Cells(n) |->
     LET from == c[1] * n + c[2] - (d0 * n + d1)
     IN  IF from >= 0 /\ from < n * n
         THEN val[<<from \div n, from % n>>] ELSE 0]

Pad(val, n, d0, d1, be) ==
  IF be = "webgl" THEN PadWebgl(val, n, d0, d1) ELSE PadCpu(val, n, d0, d1)

\* moveImage (src lines 256-267): d = distance.round().dataSync(), then the
\* pad and .as2D(h, w).  A NaN or infinite d makes the padded shape NaN:
\* tfjs throws (the reshape of as2D checks the size) or returns a tensor of
\* unknown contents.
MoveImageOutcomes(f, n, dist, be) ==
  LET d0 == Round(dist[1])
      d1 == Round(dist[2])
  IN  IF d0.kind = "num" /\ d1.kind = "num"
      THEN {Tensor(f.den, Pad(f.val, n, d0.n, d1.n, be))}
      ELSE {Thrown, Garbage}

(***************************************************************************)
(* The canvas.  Its bitmap is a function from the cells <<row, col>> to    *)
(* pixels.  Canvas2D's rasteriser is the browser's: a stroke paints the    *)
(* cells whose centre is within half the line width of the stroked         *)
(* geometry, and the placeholder text paints a fixed set of cells.         *)
(***************************************************************************)
\* Positions <<x, y>> a mouse or touch event reports: two on the bitmap, one
\* off it (a touch that has left the canvas, a press on its border).
EventPoints ==
  {<<1, 1>>, <<CANVAS_SIZE - 2, CANVAS_SIZE - 1>>, <<-CANVAS_SIZE, -CANVAS_SIZE>>}

BlankCanvas(colour) == [c \in Cells(CANVAS_SIZE) |-> colour]

\* Cells within STROKE_WIDTH / 2 (src line 7: CANVAS_SCALE * 1.5) of the
\* span lo .. hi on one axis, a cell k having its centre at k + 1/2.
NearSpan(k, lo, hi) ==
  4 * k + 2 >= 4 * lo - 3 * CANVAS_SCALE /\ 4 * k + 2 <= 4 * hi + 3 * CANVAS_SCALE

Paint(bitmap, cells, colour) ==
  [c \in Cells(CANVAS_SIZE) |-> IF c \in cells THEN colour ELSE bitmap[c]]

\* clear (src lines 82-87), with a drawing context.
Clear(bitmap) == BlankCanvas(White)

\* strokeRect(x, y, 1, 1) (src line 95).
StrokeRect(bitmap, p) ==
  Paint(bitmap,
        {c \in Cells(CANVAS_SIZE) :
           NearSpan(c[2], p[1], p[1] + 1) /\ NearSpan(c[1], p[2], p[2] + 1)},
        Black)

\* stroke() (src line 103) of the current path: every vertex of the path
\* with its round cap.
Stroke(bitmap, vertices) ==
  Paint(bitmap,
        {c \in Cells(CANVAS_SIZE) :
           \E p \in vertices : NearSpan(c[2], p[1], p[1]) /\ NearSpan(c[1], p[2], p[2])},
        Black)

\* The cells fillText("Draw here!", width / 2, height / 2) paints
\* (src lines 122-126).
PlaceholderCells ==
  {c \in Cells(CANVAS_SIZE) :
     c[1] = CANVAS_SIZE \div 2 /\ c[2] >= 1 /\ c[2] <= CANVAS_SIZE - 2}

FillText(bitmap) == Paint(bitmap, PlaceholderCells, PlaceholderBlue)

HasPlaceholder(bitmap) == \E c \in Cells(CANVAS_SIZE) : bitmap[c] = PlaceholderBlue
HasInk(bitmap) == \E c \in Cells(CANVAS_SIZE) : bitmap[c] = Black

(***************************************************************************)
(* tf.tidy and the engine's tensor count.                                  *)
(***************************************************************************)
\* The tensors a tidy releases when its function ends: all it tracked but
\* the `kept` it returns (src lines 143, 242, 257).
\* Variant: a tidy that releases nothing.
TidyEndLeak(tracked, kept) == 0
TidyEnd(tracked, kept) == tracked - kept

\* The order of createTensor's statements (src lines 145-167).
\* Variant: the clip moved behind moveImage.
StageOrderClipLast ==
  <<"gaussFilter", "grayscale", "blur", "resize", "centerOfMass", "distance",
    "moveImage", "clip">>
StageOrder ==
  <<"gaussFilter", "grayscale", "blur", "resize", "clip", "centerOfMass",
    "distance", "moveImage">>

StageIndex(name) == CHOOSE i \in 1 .. Len(StageOrder) : StageOrder[i] = name

\* Tensors each statement creates in createTensor's own tidy scope.  The
\* nested tidies of centerOfMass (15 tensors) and moveImage (3) keep one.
Allocated(name) ==
  CASE name = "gaussFilter" -> 2
    [] name = "grayscale" -> 6
    [] name = "blur" -> 1
    [] name = "resize" -> 1
    [] name = "clip" -> 2
    [] name = "centerOfMass" -> 15 - TidyEnd(15, 1)
    [] name = "distance" -> 3
    [] name = "moveImage" -> 3 - TidyEnd(3, 1)

VARIABLES
  connected,       \* the five listeners are on the canvas
  drawContext,     \* _drawContext is not null
  drawing,         \* _drawing
  drawingStarted,  \* _drawingStarted
  canvas,          \* the bitmap of _canvas
  path,            \* the vertices of the context's current path
  pc,              \* where the running handler or call is
  stage,           \* index in StageOrder of createTensor's next statement
  clicks,          \* "to tensor" clicks so far
  backend,         \* the tfjs backend in use
  blurFilter, image, centroid, distance, centeredImage,  \* createTensor's locals
  stages,          \* the statements createTensor has run, in order
  numTensors,      \* tensors alive in the engine
  scopeTensors,    \* tensors createTensor's tidy tracks
  liveOut,         \* returned image tensors not yet disposed
  rendering,       \* image tensors whose toPixels has not finished
  kArgs,           \* the <<size, sigma>> of a direct gaussFilter call
  recentred        \* centerOfMass of the moved image

uiVars == <<connected, drawContext, drawing, drawingStarted, canvas, path>>
ctlVars == <<pc, stage, clicks, backend>>
pipeVars == <<blurFilter, image, centroid, distance, centeredImage, stages>>
tfVars == <<numTensors, scopeTensors, liveOut, rendering>>
fnVars == <<kArgs, recentred>>
vars == <<uiVars, ctlVars, pipeVars, tfVars, fnVars>>

NoKernel == [kind |-> "none", size |-> 0, nan |-> FALSE, den |-> 0, val |-> NoGrid]
NoPair == <<NaN, NaN>>

InitPipe ==
  /\ blurFilter = NoKernel
  /\ image = NoTensor
  /\ centroid = NoPair
  /\ distance = NoPair
  /\ centeredImage = NoTensor
  /\ stages = <<>>

InitTf ==
  /\ numTensors = 0
  /\ scopeTensors = 0
  /\ liveOut = {}
  /\ rendering = {}

InitFn ==
  /\ kArgs = <<CANVAS_SCALE, SqrtOf(CANVAS_SCALE)>>
  /\ recentred = NoPair

\* The component after its constructor (src lines 14-16, 42-80).
InitUi ==
  /\ connected = FALSE
  /\ drawContext = FALSE
  /\ drawing = FALSE
  /\ drawingStarted = FALSE
  /\ canvas = BlankCanvas(Transparent)
  /\ path = {}

Init ==
  /\ InitUi
  /\ pc = "idle"
  /\ stage = 1
  /\ clicks = 0
  /\ backend \in {"webgl", "cpu"}
  /\ InitPipe
  /\ InitTf
  /\ InitFn

(***************************************************************************)
(* The drawing handlers.  A handler runs to completion: none starts while  *)
(* the click handler is running (pc # "idle").                             *)
(***************************************************************************)
\* startDraw (src lines 89-97).
StartDraw(p) ==
  /\ drawingStarted' = (drawContext \/ drawingStarted)
  /\ canvas' = IF ~drawContext THEN canvas
               ELSE IF ~drawingStarted THEN StrokeRect(Clear(canvas), p)
               ELSE StrokeRect(canvas, p)
  /\ UNCHANGED <<connected, drawContext, drawing, path>>

\* draw (src lines 99-110).
Draw(p) ==
  /\ IF ~drawContext
     THEN UNCHANGED <<canvas, path, drawing>>
     ELSE IF drawing
     THEN /\ path' = path \cup {p}
          /\ canvas' = Stroke(canvas, path')
          /\ UNCHANGED drawing
     ELSE /\ path' = {p}
          /\ drawing' = TRUE
          /\ UNCHANGED canvas
  /\ UNCHANGED <<connected, drawContext, drawingStarted>>

\* endDraw (src lines 112-114).
EndDraw ==
  /\ drawing' = FALSE
  /\ UNCHANGED <<connected, drawContext, drawingStarted, canvas, path>>

Listening == connected /\ pc = "idle"

\* _mouseDownHandler (src lines 18-20).
MouseDown ==
  /\ Listening
  /\ \E p \in EventPoints : StartDraw(p)
  /\ UNCHANGED <<ctlVars, pipeVars, tfVars, fnVars>>

\* _mouseMoveHandler (src lines 21-27).
MouseMove ==
  /\ Listening
  /\ \E p \in EventPoints, buttons \in BOOLEAN :
       IF buttons THEN Draw(p) ELSE EndDraw
  /\ UNCHANGED <<ctlVars, pipeVars, tfVars, fnVars>>

\* _touchStartHandler (src lines 28-32).
TouchStart ==
  /\ Listening
  /\ \E p \in EventPoints : StartDraw(p)
  /\ UNCHANGED <<ctlVars, pipeVars, tfVars, fnVars>>

\* _touchMoveHandler (src lines 33-37).
TouchMove ==
  /\ Listening
  /\ \E p \in EventPoints : Draw(p)
  /\ UNCHANGED <<ctlVars, pipeVars, tfVars, fnVars>>

\* _touchEndHandler (src lines 38-40).
TouchEnd ==
  /\ Listening
  /\ EndDraw
  /\ UNCHANGED <<ctlVars, pipeVars, tfVars, fnVars>>

\* connectedCallback (src lines 185-203).  getContext("2d") may return null
\* the first time; once it returned the context it returns it again.
ConnectedCallback ==
  /\ pc = "idle"
  /\ ~connected
  /\ \E ctx \in (IF drawContext THEN {TRUE} ELSE BOOLEAN) :
       /\ drawContext' = ctx
       /\ canvas' = IF ctx THEN FillText(Clear(canvas)) ELSE canvas
       /\ drawingStarted' = IF ctx THEN FALSE ELSE drawingStarted
  /\ connected' = TRUE
  /\ UNCHANGED <<drawing, path, ctlVars, pipeVars, tfVars, fnVars>>

\* disconnectedCallback (src lines 205-211).
DisconnectedCallback ==
  /\ pc = "idle"
  /\ connected
  /\ connected' = FALSE
  /\ UNCHANGED <<drawContext, drawing, drawingStarted, canvas, path,
                 ctlVars, pipeVars, tfVars, fnVars>>

(***************************************************************************)
(* createTensor (src lines 142-171), a statement at a time.                *)
(***************************************************************************)
AtStage(name) ==
  /\ pc = "createTensor"
  /\ centeredImage.kind # "throw"
  /\ stage <= Len(StageOrder)
  /\ StageOrder[stage] = name

\* The statement ran and left `made` more tensors in createTensor's scope.
Ran(name, made) ==
  /\ stage' = stage + 1
  /\ stages' = Append(stages, name)
  /\ numTensors' = numTensors + made
  /\ scopeTensors' = scopeTensors + made
  /\ UNCHANGED <<pc, clicks, backend, liveOut, rendering, uiVars, fnVars>>

\* src lines 145-148.
GaussFilterStage ==
  /\ AtStage("gaussFilter")
  /\ blurFilter' \in GaussFilterOutcomes(CANVAS_SCALE, SqrtOf(CANVAS_SCALE))
  /\ Ran("gaussFilter", Allocated("gaussFilter"))
  /\ UNCHANGED <<image, centroid, distance, centeredImage>>

\* src lines 151-157.
GrayscaleStage ==
  /\ AtStage("grayscale")
  /\ image' = Grayscale(canvas)
  /\ Ran("grayscale", Allocated("grayscale"))
  /\ UNCHANGED <<blurFilter, centroid, distance, centeredImage>>

\* src line 158.
BlurStage ==
  /\ AtStage("blur")
  /\ image' = Conv2d(image, blurFilter, CANVAS_SIZE)
  /\ Ran("blur", Allocated("blur"))
  /\ UNCHANGED <<blurFilter, centroid, distance, centeredImage>>

\* src line 159.
ResizeStage ==
  /\ AtStage("resize")
  /\ image' = ResizeNearestNeighbor(image, CANVAS_SIZE, IMAGE_SIZE)
  /\ Ran("resize", Allocated("resize"))
  /\ UNCHANGED <<blurFilter, centroid, distance, centeredImage>>

\* src lines 160-161.
ClipStage ==
  /\ AtStage("clip")
  /\ image' = ClipByValue(image)
  /\ Ran("clip", Allocated("clip"))
  /\ UNCHANGED <<blurFilter, centroid, distance, centeredImage>>

\* src line 165.
CenterOfMassStage ==
  /\ AtStage("centerOfMass")
  /\ centroid' = CenterOfMass(image, IMAGE_SIZE)
  /\ Ran("centerOfMass", Allocated("centerOfMass"))
  /\ UNCHANGED <<blurFilter, image, distance, centeredImage>>

\* src lines 164, 166.
DistanceStage ==
  /\ AtStage("distance")
  /\ distance' = Distance(centroid, IMAGE_SIZE)
  /\ Ran("distance", Allocated("distance"))
  /\ UNCHANGED <<blurFilter, image, centroid, centeredImage>>

\* src line 167.  When moveImage throws, its own tidy keeps nothing.
MoveImageStage ==
  /\ AtStage("moveImage")
  /\ centeredImage' \in MoveImageOutcomes(image, IMAGE_SIZE, distance, backend)
  /\ Ran("moveImage",
         IF centeredImage'.kind = "throw" THEN 3 - TidyEnd(3, 0)
         ELSE Allocated("moveImage"))
  /\ UNCHANGED <<blurFilter, image, centroid, distance>>

\* The end of createTensor's tidy (src lines 143, 169-170): by return of
\* centeredImage, or by the exception of a statement.
EndTidy ==
  /\ pc = "createTensor"
  /\ stage > Len(StageOrder) \/ centeredImage.kind = "throw"
  /\ IF centeredImage.kind = "throw"
     THEN /\ numTensors' = numTensors - TidyEnd(scopeTensors, 0)
          /\ pc' = "thrown"
          /\ UNCHANGED liveOut
     ELSE /\ numTensors' = numTensors - TidyEnd(scopeTensors, 1)
          /\ pc' = "returned"
          /\ liveOut' = liveOut \cup {clicks}
  /\ scopeTensors' = 0
  /\ UNCHANGED <<stage, clicks, backend, rendering, uiVars, pipeVars, fnVars>>

(***************************************************************************)
(* The "to tensor" click handler (src lines 66-73).                        *)
(***************************************************************************)
\* The click, and the call of createTensor (src line 67).
Click ==
  /\ pc = "idle"
  /\ clicks < MaxClicks
  /\ clicks' = clicks + 1
  /\ pc' = "createTensor"
  /\ UNCHANGED <<stage, backend, uiVars, pipeVars, tfVars, fnVars>>

\* The handler ends: the locals of its call of createTensor are gone.
HandlerEnds ==
  /\ pc' = "idle"
  /\ stage' = 1
  /\ blurFilter' = NoKernel
  /\ image' = NoTensor
  /\ centroid' = NoPair
  /\ distance' = NoPair
  /\ centeredImage' = NoTensor
  /\ stages' = <<>>
  /\ UNCHANGED <<clicks, backend, tfVars, fnVars>>

\* createOutputCanvas (src lines 177-183): tf.browser.toPixels is called and
\* its promise dropped; it resumes after the handler has returned.
CreateOutputCanvas ==
  /\ pc = "returned"
  /\ rendering' = rendering \cup {clicks}
  /\ pc' = "displayed"
  /\ UNCHANGED <<stage, clicks, backend, numTensors, scopeTensors, liveOut,
                 uiVars, pipeVars, fnVars>>

\* imageTensor.dispose() (src line 69).
DisposeImage ==
  /\ pc = "displayed"
  /\ liveOut' = liveOut \ {clicks}
  /\ numTensors' = numTensors - 1
  /\ pc' = "disposed"
  /\ UNCHANGED <<stage, clicks, backend, scopeTensors, rendering,
                 uiVars, pipeVars, fnVars>>

\* this.clear(); this.writeDrawHere() (src lines 71-72, 82-87, 116-128).
ClearAndWriteDrawHere ==
  /\ pc = "disposed"
  /\ canvas' = IF drawContext THEN FillText(Clear(canvas)) ELSE canvas
  /\ drawingStarted' = FALSE
  /\ HandlerEnds
  /\ UNCHANGED <<connected, drawContext, drawing, path>>

\* createTensor threw: the handler ends at src line 67.
UncaughtError ==
  /\ pc = "thrown"
  /\ HandlerEnds
  /\ UNCHANGED uiVars

\* toPixels resumes and ends (src line 181), once no handler runs.
ToPixelsResume ==
  /\ pc = "idle"
  /\ \E id \in rendering : rendering' = rendering \ {id}
  /\ UNCHANGED <<numTensors, scopeTensors, liveOut, uiVars, ctlVars, pipeVars, fnVars>>

CreateTensorNext ==
  \/ GaussFilterStage
  \/ GrayscaleStage
  \/ BlurStage
  \/ ResizeStage
  \/ ClipStage
  \/ CenterOfMassStage
  \/ DistanceStage
  \/ MoveImageStage
  \/ EndTidy

Next ==
  \/ ConnectedCallback
  \/ DisconnectedCallback
  \/ MouseDown
  \/ MouseMove
  \/ TouchStart
  \/ TouchMove
  \/ TouchEnd
  \/ Click
  \/ CreateTensorNext
  \/ CreateOutputCanvas
  \/ DisposeImage
  \/ ClearAndWriteDrawHere
  \/ UncaughtError
  \/ ToPixelsResume

Spec == Init /\ [][Next]_vars

(***************************************************************************)
(* createTensor as a function of the canvas: the canvas is any bitmap of a *)
(* bounded family, and the call runs from its first statement to its end.  *)
(***************************************************************************)
Palette == {Black, PlaceholderBlue, <<128, 128, 128, 255>>, <<255, 0, 0, 255>>}

\* The white bitmap, and the white bitmaps holding one square block of a
\* colour.
TestBitmaps ==
  {BlankCanvas(White)} \cup
  {Paint(BlankCanvas(White),
         {c \in Cells(CANVAS_SIZE) :
            c[1] >= p[1] /\ c[1] < p[1] + side /\ c[2] >= p[2] /\ c[2] < p[2] + side},
         colour) :
     p \in Cells(CANVAS_SIZE), side \in {1, CANVAS_SCALE}, colour \in Palette}

InitCreateTensor ==
  /\ connected = TRUE
  /\ drawContext = TRUE
  /\ drawing = FALSE
  /\ drawingStarted = TRUE
  /\ canvas \in TestBitmaps
  /\ path = {}
  /\ pc = "createTensor"
  /\ stage = 1
  /\ clicks = 0
  /\ backend \in {"webgl", "cpu"}
  /\ InitPipe
  /\ InitTf
  /\ InitFn

SpecCreateTensor == InitCreateTensor /\ [][CreateTensorNext]_vars

(***************************************************************************)
(* centerOfMass and moveImage as functions: from centerOfMass on for a     *)
(* field holding one point of mass, and moveImage alone for a field and    *)
(* an integer distance; then centerOfMass of the moved image.              *)
(***************************************************************************)
\* The field that is 1 at cell p and 0 elsewhere.
PointField(p) == Tensor(1, [c \in Cells(IMAGE_SIZE) |-> IF c = p THEN 1 ELSE 0])

IsPointField(f) ==
  /\ f.kind = "tensor"
  /\ \E p \in Cells(IMAGE_SIZE) : f = PointField(p)

\* Fields with the values 1/2 at p and 1 at q (p = q: the value 1 at p).
TwoPointField(p, q) ==
  Tensor(2, [c \in Cells(IMAGE_SIZE) |-> IF c = q THEN 2 ELSE IF c = p THEN 1 ELSE 0])

MoveFields ==
  {Tensor(2, [c \in Cells(IMAGE_SIZE) |-> 0])} \cup
  {TwoPointField(p, q) : p \in Cells(IMAGE_SIZE), q \in Cells(IMAGE_SIZE)}

Shifts == (-IMAGE_SIZE) .. IMAGE_SIZE

InitMove ==
  /\ connected = FALSE
  /\ drawContext = FALSE
  /\ drawing = FALSE
  /\ drawingStarted = FALSE
  /\ canvas = BlankCanvas(Transparent)
  /\ path = {}
  /\ pc = "createTensor"
  /\ clicks = 0
  /\ backend \in {"webgl", "cpu"}
  /\ blurFilter = NoKernel
  /\ centroid = NoPair
  /\ centeredImage = NoTensor
  /\ stages = <<>>
  /\ InitTf
  /\ InitFn
  /\ \/ /\ stage = StageIndex("centerOfMass")
        /\ image \in {PointField(p) : p \in Cells(IMAGE_SIZE)}
        /\ distance = NoPair
     \/ /\ stage = StageIndex("moveImage")
        /\ image \in MoveFields
        /\ distance \in {<<Rat(di, 1), Rat(dj, 1)>> : di \in Shifts, dj \in Shifts}

\* centerOfMass (src lines 241-251) of the image createTensor returned.
CenterOfMassOfResult ==
  /\ pc = "returned"
  /\ centeredImage.kind = "tensor"
  /\ recentred' = CenterOfMass(centeredImage, IMAGE_SIZE)
  /\ pc' = "checked"
  /\ UNCHANGED <<stage, clicks, backend, kArgs, uiVars, pipeVars, tfVars>>

MoveNext ==
  \/ CenterOfMassStage
  \/ DistanceStage
  \/ MoveImageStage
  \/ EndTidy
  \/ CenterOfMassOfResult

SpecMove == InitMove /\ [][MoveNext]_vars

(***************************************************************************)
(* gaussFilter as a function of its two parameters.                        *)
(***************************************************************************)
Sigmas ==
  {Sigma(0, 0)} \cup {Sigma(sgn, sq) : sgn \in {-1, 1}, sq \in 1 .. MaxSigmaSq}

InitKernel ==
  /\ InitUi
  /\ pc = "gaussFilter"
  /\ stage = 1
  /\ clicks = 0
  /\ backend \in {"webgl", "cpu"}
  /\ InitPipe
  /\ InitTf
  /\ kArgs \in ((-1) .. MaxKernelSize) \X Sigmas
  /\ recentred = NoPair

\* gaussFilter(size, sigma) (src lines 213-236).
GaussFilterCall ==
  /\ pc = "gaussFilter"
  /\ blurFilter' \in GaussFilterOutcomes(kArgs[1], kArgs[2])
  /\ pc' = "kernelDone"
  /\ UNCHANGED <<stage, clicks, backend, image, centroid, distance, centeredImage,
                 stages, uiVars, tfVars, fnVars>>

KernelNext == GaussFilterCall

SpecKernel == InitKernel /\ [][KernelNext]_vars

(***************************************************************************)
(* The claims.                                                             *)
(***************************************************************************)
CreateTensorEnded == pc \in {"returned", "thrown"}

\* The field that entered centerOfMass is 0 in every cell.
ZeroMassField ==
  /\ image.kind = "tensor"
  /\ DOMAIN image.val = Cells(IMAGE_SIZE)
  /\ \A c \in Cells(IMAGE_SIZE) : image.val[c] = 0

IsFinite(x) == x.kind = "num"

\* C1: for a field of zero mass centerOfMass does not divide by zero (its
\* result is no NaN), createTensor skips moveImage, and the grid returned
\* is the IMAGE_SIZE x IMAGE_SIZE grid of zeros.
C1_ZeroMassSafe ==
  (CreateTensorEnded /\ ZeroMassField) =>
    /\ centroid[1].kind # "nan" /\ centroid[2].kind # "nan"
    /\ \A k \in 1 .. Len(stages) : stages[k] # "moveImage"
    /\ pc = "returned"
    /\ centeredImage.kind = "tensor"
    /\ DOMAIN centeredImage.val = Cells(IMAGE_SIZE)
    /\ \A c \in Cells(IMAGE_SIZE) : centeredImage.val[c] = 0

\* C2: for every canvas, createTensor returns a grid whose every cell is a
\* defined number in [0, 1].
C2_OutputInUnitRange ==
  CreateTensorEnded =>
    /\ pc = "returned"
    /\ centeredImage.kind = "tensor"
    /\ DOMAIN centeredImage.val = Cells(IMAGE_SIZE)
    /\ \A c \in Cells(IMAGE_SIZE) :
         centeredImage.val[c] >= 0 /\ centeredImage.val[c] <= centeredImage.den

\* |x - IMAGE_SIZE / 2| <= 1/2 for a finite scalar x.
WithinHalfOfCenter(x) ==
  /\ IsFinite(x)
  /\ Abs(2 * x.n - IMAGE_SIZE * x.d) <= x.d

\* C3: for a field holding one point of unit mass, after centerOfMass, the
\* rounded distance to the center and moveImage, the centroid of the moved
\* field is within 0.5 of (IMAGE_SIZE / 2, IMAGE_SIZE / 2) in row and column.
C3_CentroidWithinHalf ==
  (pc = "checked" /\ IsPointField(image) /\ Len(stages) = 3) =>
    /\ WithinHalfOfCenter(recentred[1])
    /\ WithinHalfOfCenter(recentred[2])

\* C3's case: the point started in the corner (0, 0), was moved, and the
\* centroid of the moved field was computed.
C3_Witness ==
  /\ pc = "checked"
  /\ image = PointField(<<0, 0>>)
  /\ stages = <<"centerOfMass", "distance", "moveImage">>
  /\ centeredImage # image
  /\ IsFinite(recentred[1])

\* The distance moveImage was given is a pair of integers.
IntegerDistance ==
  /\ IsFinite(distance[1]) /\ distance[1].d = 1
  /\ IsFinite(distance[2]) /\ distance[2].d = 1

\* C4: for every field and every integer displacement (di, dj), moveImage
\* returns a field of the same dimensions with out[i][j] = in[i-di][j-dj]
\* where (i-di, j-dj) is inside the field and 0 elsewhere: nothing wraps to
\* the opposite edge or to a neighbouring row.
C4_ShiftDiscards ==
  (pc \in {"returned", "checked"} /\ IntegerDistance /\ image.kind = "tensor") =>
    /\ centeredImage.kind = "tensor"
    /\ DOMAIN centeredImage.val = Cells(IMAGE_SIZE)
    /\ centeredImage.den = image.den
    /\ \A c \in Cells(IMAGE_SIZE) :
         centeredImage.val[c] =
           LET i == c[1] - distance[1].n
               j == c[2] - distance[2].n
           IN  IF i >= 0 /\ i < IMAGE_SIZE /\ j >= 0 /\ j < IMAGE_SIZE
               THEN image.val[<<i, j>>] ELSE 0

\* gaussFilter was called with size <= 0 or sigma <= 0.
InvalidKernelArgs == kArgs[1] <= 0 \/ kArgs[2].sgn <= 0

\* C5: gaussFilter called with size <= 0 or sigma <= 0 rejects the call and
\* never returns a kernel.
C5_RejectsInvalidParameter ==
  (pc = "kernelDone" /\ InvalidKernelArgs) => blurFilter.kind # "kernel"

\* C6: for every positive size and positive sigma the kernel of gaussFilter
\* is point-symmetric: kernel[x][y] = kernel[size-1-x][size-1-y].
C6_KernelPointSymmetric ==
  (pc = "kernelDone" /\ ~InvalidKernelArgs) =>
    /\ blurFilter.kind = "kernel"
    /\ ~blurFilter.nan
    /\ DOMAIN blurFilter.val = Cells(kArgs[1])
    /\ \A c \in Cells(kArgs[1]) :
         blurFilter.val[c] = blurFilter.val[<<kArgs[1] - 1 - c[1], kArgs[1] - 1 - c[2]>>]

\* C6's case: a 4 x 4 kernel with sigma = sqrt(2) was built, and its weights
\* are not all the same.
C6_Witness ==
  /\ pc = "kernelDone"
  /\ kArgs = <<4, Sigma(1, 2)>>
  /\ blurFilter.kind = "kernel"
  /\ blurFilter.val[<<0, 0>>] < blurFilter.val[<<1, 1>>]
  /\ blurFilter.val[<<0, 1>>] < blurFilter.val[<<1, 1>>]

\* The place of a statement in the run of createTensor, 0 if it did not run.
Place(name) ==
  IF \E k \in 1 .. Len(stages) : stages[k] = name
  THEN CHOOSE k \in 1 .. Len(stages) : stages[k] = name
  ELSE 0

\* C7 as claimed: the stages run grayscale, blur, resize, centerOfMass,
\* moveImage, clip: the clip is the last step, after moveImage, and the
\* centroid is computed before any clip.
C7_ClipIsLast ==
  pc = "returned" =>
    /\ Place("grayscale") < Place("blur")
    /\ Place("blur") < Place("resize")
    /\ Place("resize") < Place("centerOfMass")
    /\ Place("centerOfMass") < Place("moveImage")
    /\ Place("moveImage") < Place("clip")
    /\ Place("clip") = Len(stages)

\* C7 as amended: the stages run grayscale, blur, resize, clip,
\* centerOfMass, moveImage: the clip follows the resize, the centroid is
\* computed on the clipped field, and moveImage is the last step.
C7_ClipBeforeMoment ==
  /\ pc \in {"createTensor", "returned", "thrown"} =>
       /\ Len(stages) <= 8
       /\ stages = SubSeq(<<"gaussFilter", "grayscale", "blur", "resize", "clip",
                            "centerOfMass", "distance", "moveImage">>, 1, Len(stages))
  /\ pc = "returned" =>
       /\ Place("grayscale") > 0
       /\ Place("resize") + 1 = Place("clip")
       /\ Place("clip") + 1 = Place("centerOfMass")
       /\ Place("moveImage") = Len(stages)

\* C7's case: createTensor ran every statement on a canvas with ink and
\* returned a grid.
C7_Witness ==
  /\ pc = "returned"
  /\ Len(stages) = 8
  /\ centeredImage.kind = "tensor"
  /\ \E c \in Cells(IMAGE_SIZE) : centeredImage.val[c] > 0

\* C8: whenever a click handler has ended, every tensor it allocated has
\* been released: as many tensors are alive as before the click (none).
C8_NoTensorLeak ==
  pc = "idle" => (numTensors = 0 /\ liveOut = {})

\* C8's case: two clicks were handled to the end, each returned an image
\* that was handed to toPixels, and no tensor is alive.
C8_Witness ==
  /\ pc = "idle"
  /\ clicks = 2
  /\ rendering = {1, 2}
  /\ numTensors = 0

\* C9: the image tensor is not disposed while the toPixels started for it
\* has not finished.
C9_NoDisposeWhileRendering == rendering \subseteq liveOut

\* C10: ink is on the canvas only when the placeholder is not: no stroke is
\* drawn on top of "Draw here!".
C10_InkOnlyOnPlainBackground == ~(HasInk(canvas) /\ HasPlaceholder(canvas))

=============================================================================
